---- MODULE Spec2Model ----
(***************************************************************************)
(* The App component of the PDF renamer: the upload, clear, processFiles   *)
(* and handleDownloadZip handlers over the React state (results, logs,     *)
(* isProcessing).  Record objects live in a heap and the arrays hold       *)
(* references, because processFiles mutates the records in place through   *)
(* a shallow copy of the results array.  An asynchronous handler is cut at *)
(* its await points; pc names the point the run is at.                     *)
(***************************************************************************)
EXTENDS Integers, Sequences, FiniteSets, TLC

VARIABLES
    results,        \* useState results: the published array (references)
    heap,           \* the live ProcessedFile objects, by reference
    isProcessing,   \* useState isProcessing
    logs,           \* useState logs
    pc,             \* where the processFiles / handleDownloadZip run is
    previewOnly,    \* processFiles' parameter
    updatedResults, \* processFiles' shallow copy of the captured results
    i,              \* the loop index of processFiles (0-based, as in the source)
    text,           \* const text of the current iteration
    newName,        \* const newName of the current iteration
    error,          \* the value caught by the current iteration
    zip,            \* the JSZip object: its file(name, data) calls in order
    downloads       \* how many times link.click() started a download

vars == <<results, heap, isProcessing, logs, pc, previewOnly, updatedResults,
          i, text, newName, error, zip, downloads>>

-----------------------------------------------------------------------------
(* Bounds of the model *)

NumFiles == 3
MaxLogs == 7
MaxDownloads == 1

-----------------------------------------------------------------------------
(* types.ts *)

FileProcessStatus ==
    [Idle |-> "Idle", Processing |-> "Processing", Success |-> "Success",
     Error |-> "Error", NoMatch |-> "No Match Found"]

\* The value of an absent optional field or an unset local.
Undefined == "undefined"

\* The File objects a user can pick.  Files 1 and 3 share name and
\* modification time and differ in content.
FileAt(k) ==
    [name |-> IF k % 2 = 1 THEN "x.pdf" ELSE "y.pdf",
     lastModified |-> 1 + (k \div 4),
     blob |-> k]

\* The selections handed to handleFilesSelected: the first n files, n = 0
\* being the empty selection.
Selections == {[k \in 1..n |-> FileAt(k)] : n \in 0..NumFiles}

\* What extractTextFromPdf can settle with.
Texts == {"", "Invoice No: a"}

\* What getNewFilename can resolve with: a name, or nothing.
Names == {"a", "a_1"}
NoName == ""

\* What a rejected call can throw: an Error with a message, or another value.
Thrown ==
    {[isError |-> TRUE, message |-> "boom"],
     [isError |-> FALSE, message |-> Undefined]}

NoError == [isError |-> FALSE, message |-> "none"]

-----------------------------------------------------------------------------
(* Helpers *)

Range(s) == {s[k] : k \in DOMAIN s}

addLog(l, message, type) == Append(l, [message |-> message, type |-> type])

\* Only the objects an array still references stay alive.
Live(h, refs) == [r \in (DOMAIN h) \cap refs |-> h[r]]

\* References for n new objects: the lowest block of NumFiles references
\* in which no live object sits.
FreshRefs(used, n) ==
    LET base == CHOOSE b \in 0..Cardinality(used) :
                    /\ \A k \in 1..NumFiles : (b * NumFiles + k) \notin used
                    /\ \A c \in 0..(b - 1) :
                           \E k \in 1..NumFiles : (c * NumFiles + k) \in used
    IN [k \in 1..n |-> base * NumFiles + k]

\* JS run-to-completion: an event handler starts only when no handler is in
\* the middle of a synchronous block, i.e. the run is idle or at an await.
EventLoopFree == pc \in {"idle", "extract", "naming", "zip"}

\* FileUploader and ActionButtons receive isProcessing and disable their
\* controls while it is true.
UIEnabled == ~isProcessing

-----------------------------------------------------------------------------
Init ==
    /\ results = <<>>
    /\ heap = <<>>
    /\ isProcessing = FALSE
    /\ logs = <<>>
    /\ pc = "idle"
    /\ previewOnly = FALSE
    /\ updatedResults = <<>>
    /\ i = 0
    /\ text = Undefined
    /\ newName = Undefined
    /\ error = NoError
    /\ zip = <<>>
    /\ downloads = 0

runLocals == <<previewOnly, updatedResults, i, text, newName, error>>

\* handleFilesSelected, lines 29-35: one record per file.
NewRecord(file) ==
    [id |-> file.name \o "-" \o ToString(file.lastModified),
     originalFile |-> file,
     originalName |-> file.name,
     newName |-> "",
     status |-> FileProcessStatus.Idle,
     message |-> Undefined]

handleFilesSelected(files) ==
    /\ EventLoopFree
    /\ UIEnabled
    /\ IF Len(files) = 0
       THEN UNCHANGED vars
       ELSE LET refs == FreshRefs(DOMAIN heap, Len(files))
                newResults == [k \in 1..Len(files) |-> refs[k]]
                h == [r \in (DOMAIN heap) \cup Range(refs) |->
                        IF r \in DOMAIN heap THEN heap[r]
                        ELSE NewRecord(files[CHOOSE k \in 1..Len(files) : refs[k] = r])]
            IN /\ results' = newResults
               /\ heap' = Live(h, Range(newResults) \cup Range(updatedResults))
               /\ logs' = addLog(<<>>, "Loaded " \o ToString(Len(files))
                                       \o " PDF file(s). Ready for processing.", "info")
               /\ UNCHANGED <<isProcessing, pc, runLocals, zip, downloads>>

clearAll ==
    /\ EventLoopFree
    /\ UIEnabled
    /\ results' = <<>>
    /\ heap' = Live(heap, Range(updatedResults))
    /\ logs' = <<>>
    /\ UNCHANGED <<isProcessing, pc, runLocals, zip, downloads>>

-----------------------------------------------------------------------------
(* processFiles *)

\* The record the current iteration works on: updatedResults[i].
result == updatedResults[i + 1]

\* A processFiles without the empty-batch return.
processFiles_NoEmptyCheck(preview) ==
    /\ EventLoopFree
    /\ UIEnabled
    /\ Len(logs) <= MaxLogs
    /\ preview \/ downloads < MaxDownloads
    /\ isProcessing' = TRUE
    /\ logs' = addLog(logs, IF preview THEN "Starting rename PREVIEW..."
                            ELSE "Starting file processing for download...", "info")
    /\ previewOnly' = preview
    /\ updatedResults' = results
    /\ i' = 0
    /\ pc' = "loop"
    /\ UNCHANGED <<results, heap, text, newName, error, zip, downloads>>

\* A processFiles that does not raise isProcessing.
processFiles_NoSetProcessing(preview) ==
    /\ EventLoopFree
    /\ UIEnabled
    /\ Len(logs) <= MaxLogs
    /\ preview \/ downloads < MaxDownloads
    /\ IF Len(results) = 0
       THEN /\ logs' = addLog(logs, "No files to process. Please upload PDFs first.", "error")
            /\ UNCHANGED <<results, heap, isProcessing, pc, runLocals, zip, downloads>>
       ELSE /\ logs' = addLog(logs, IF preview THEN "Starting rename PREVIEW..."
                                    ELSE "Starting file processing for download...", "info")
            /\ previewOnly' = preview
            /\ updatedResults' = results
            /\ i' = 0
            /\ pc' = "loop"
            /\ UNCHANGED <<results, heap, isProcessing, text, newName, error, zip, downloads>>

\* Lines 47-59: the empty-batch return, or the start of a run.  The closure
\* captured the results of the render the click came from.
processFiles(preview) ==
    /\ EventLoopFree
    /\ UIEnabled
    /\ Len(logs) <= MaxLogs
    /\ preview \/ downloads < MaxDownloads
    /\ IF Len(results) = 0
       THEN /\ logs' = addLog(logs, "No files to process. Please upload PDFs first.", "error")
            /\ UNCHANGED <<results, heap, isProcessing, pc, runLocals, zip, downloads>>
       ELSE /\ isProcessing' = TRUE
            /\ logs' = addLog(logs, IF preview THEN "Starting rename PREVIEW..."
                                    ELSE "Starting file processing for download...", "info")
            /\ previewOnly' = preview
            /\ updatedResults' = results
            /\ i' = 0
            /\ pc' = "loop"
            /\ UNCHANGED <<results, heap, text, newName, error, zip, downloads>>

\* A reset that forgets to clear the computed name.
ResetRecord_KeepsName(r) ==
    [r EXCEPT !.status = FileProcessStatus.Processing]

\* A reset that clears the name and leaves the status.
ResetRecord_KeepsStatus(r) ==
    [r EXCEPT !.newName = ""]

\* Lines 65-66: the reset of a record for (re-)processing.
ResetRecord(r) ==
    [r EXCEPT !.status = FileProcessStatus.Processing, !.newName = ""]

\* A loop head that resets every record of the batch at once, as a fan-out
\* over the batch would.
LoopBody_ResetsAll ==
    /\ pc = "loop"
    /\ i < Len(updatedResults)
    /\ heap' = [r \in DOMAIN heap |->
                  IF r \in Range(updatedResults) THEN ResetRecord(heap[r]) ELSE heap[r]]
    /\ results' = updatedResults
    /\ logs' = addLog(logs, "Processing: " \o heap[result].originalName, "info")
    /\ text' = Undefined
    /\ newName' = Undefined
    /\ error' = NoError
    /\ pc' = "extract"
    /\ UNCHANGED <<isProcessing, previewOnly, updatedResults, i, zip, downloads>>

\* Lines 61-72: the loop test passed; reset the record, publish, log and call
\* extractTextFromPdf.
LoopBody ==
    /\ pc = "loop"
    /\ i < Len(updatedResults)
    /\ heap' = [heap EXCEPT ![result] = ResetRecord(@)]
    /\ results' = updatedResults
    /\ logs' = addLog(logs, "Processing: " \o heap[result].originalName, "info")
    /\ text' = Undefined
    /\ newName' = Undefined
    /\ error' = NoError
    /\ pc' = "extract"
    /\ UNCHANGED <<isProcessing, previewOnly, updatedResults, i, zip, downloads>>

\* A catch block that records the message and forgets the status.
CatchRecord_NoStatus(r, e) ==
    [r EXCEPT !.message = IF e.isError THEN e.message
                          ELSE "An unknown error occurred."]

\* Lines 88-90: what the catch block makes of the record.
CatchRecord(r, e) ==
    [r EXCEPT !.status = FileProcessStatus.Error,
              !.message = IF e.isError THEN e.message
                          ELSE "An unknown error occurred."]

\* A catch block that marks the record and leaves the loop.
Catch_Aborts(e) ==
    LET rec == CatchRecord(heap[result], e)
    IN /\ error' = e
       /\ heap' = [heap EXCEPT ![result] = rec]
       /\ logs' = addLog(logs, "Error processing " \o rec.originalName \o ": "
                               \o rec.message, "error")
       /\ results' = updatedResults
       /\ i' = Len(updatedResults)
       /\ pc' = "loop"

\* Lines 87-94: the catch block, the publish after the try, and i++.
Catch(e) ==
    LET rec == CatchRecord(heap[result], e)
    IN /\ error' = e
       /\ heap' = [heap EXCEPT ![result] = rec]
       /\ logs' = addLog(logs, "Error processing " \o rec.originalName \o ": "
                               \o rec.message, "error")
       /\ results' = updatedResults
       /\ i' = i + 1
       /\ pc' = "loop"

\* An extraction step without the if(!text) throw.
ExtractSettles_NoEmptyCheck ==
    /\ pc = "extract"
    /\ \/ \E t \in Texts :
            /\ text' = t
            /\ pc' = "naming"
            /\ UNCHANGED <<results, heap, isProcessing, logs, previewOnly,
                           updatedResults, i, newName, error, zip, downloads>>
       \/ \E e \in Thrown :
            /\ Catch(e)
            /\ UNCHANGED <<isProcessing, previewOnly, updatedResults, text,
                           newName, zip, downloads>>

\* Lines 72-77: extractTextFromPdf settles.
ExtractSettles ==
    /\ pc = "extract"
    /\ \/ \E t \in Texts :
            /\ text' = t
            /\ IF t = ""
               THEN /\ Catch([isError |-> TRUE,
                              message |-> "Could not extract text from PDF."])
                    /\ UNCHANGED <<isProcessing, previewOnly, updatedResults,
                                   newName, zip, downloads>>
               ELSE /\ pc' = "naming"
                    /\ UNCHANGED <<results, heap, isProcessing, logs, previewOnly,
                                   updatedResults, i, newName, error, zip, downloads>>
       \/ \E e \in Thrown :
            /\ Catch(e)
            /\ UNCHANGED <<isProcessing, previewOnly, updatedResults, text,
                           newName, zip, downloads>>

\* A naming step that treats every resolved value as a name.
NamedRecord_AlwaysSuccess(r, n) ==
    [r EXCEPT !.newName = n \o ".pdf", !.status = FileProcessStatus.Success]

\* Lines 79-86: what the record becomes once getNewFilename resolved with n.
NamedRecord(r, n) ==
    IF n # NoName
    THEN [r EXCEPT !.newName = n \o ".pdf", !.status = FileProcessStatus.Success]
    ELSE [r EXCEPT !.status = FileProcessStatus.NoMatch]

\* Lines 77-94: getNewFilename settles.
NamingSettles ==
    /\ pc = "naming"
    /\ \/ \E n \in Names \cup {NoName} :
            LET rec == NamedRecord(heap[result], n)
            IN /\ newName' = n
               /\ heap' = [heap EXCEPT ![result] = rec]
               /\ logs' = IF n # NoName
                          THEN addLog(logs, "Found name for " \o rec.originalName
                                            \o " -> " \o rec.newName, "success")
                          ELSE addLog(logs, "No match found for: "
                                            \o rec.originalName, "error")
               /\ results' = updatedResults
               /\ i' = i + 1
               /\ pc' = "loop"
               /\ UNCHANGED <<isProcessing, previewOnly, updatedResults, text,
                              error, zip, downloads>>
       \/ \E e \in Thrown :
            /\ Catch(e)
            /\ UNCHANGED <<isProcessing, previewOnly, updatedResults, text,
                           newName, zip, downloads>>

\* A loop that stops one record early (i < length - 1).
Complete_OffByOne ==
    /\ pc = "loop"
    /\ ~(i < Len(updatedResults) - 1)
    /\ logs' = addLog(logs, "Processing complete.", "info")
    /\ isProcessing' = FALSE
    /\ text' = Undefined
    /\ newName' = Undefined
    /\ error' = NoError
    /\ IF ~previewOnly
       THEN /\ pc' = "download"
            /\ UNCHANGED <<results, heap, previewOnly, updatedResults, i, zip, downloads>>
       ELSE /\ pc' = "idle"
            /\ previewOnly' = FALSE
            /\ updatedResults' = <<>>
            /\ i' = 0
            /\ heap' = Live(heap, Range(results))
            /\ UNCHANGED <<results, zip, downloads>>

\* A completion that logs and forgets setIsProcessing(false).
Complete_NoClear ==
    /\ pc = "loop"
    /\ ~(i < Len(updatedResults))
    /\ logs' = addLog(logs, "Processing complete.", "info")
    /\ text' = Undefined
    /\ newName' = Undefined
    /\ error' = NoError
    /\ IF ~previewOnly
       THEN /\ pc' = "download"
            /\ UNCHANGED <<results, heap, isProcessing, previewOnly,
                           updatedResults, i, zip, downloads>>
       ELSE /\ pc' = "idle"
            /\ previewOnly' = FALSE
            /\ updatedResults' = <<>>
            /\ i' = 0
            /\ heap' = Live(heap, Range(results))
            /\ UNCHANGED <<results, isProcessing, zip, downloads>>

\* Lines 96-101: the loop is over.
Complete ==
    /\ pc = "loop"
    /\ ~(i < Len(updatedResults))
    /\ logs' = addLog(logs, "Processing complete.", "info")
    /\ isProcessing' = FALSE
    /\ text' = Undefined
    /\ newName' = Undefined
    /\ error' = NoError
    /\ IF ~previewOnly
       THEN /\ pc' = "download"
            /\ UNCHANGED <<results, heap, previewOnly, updatedResults, i, zip, downloads>>
       ELSE /\ pc' = "idle"
            /\ previewOnly' = FALSE
            /\ updatedResults' = <<>>
            /\ i' = 0
            /\ heap' = Live(heap, Range(results))
            /\ UNCHANGED <<results, zip, downloads>>

-----------------------------------------------------------------------------
(* handleDownloadZip *)

\* Line 125: finalName.replace(/\.pdf$/, '').
StripPdf(name) ==
    IF Len(name) >= 4 /\ SubSeq(name, Len(name) - 3, Len(name)) = ".pdf"
    THEN SubSeq(name, 1, Len(name) - 4)
    ELSE name

\* Lines 122-130: the name one record is stored under, given nameCounts.
FinalName(name, nameCounts) ==
    IF name \in DOMAIN nameCounts
    THEN StripPdf(name) \o "_" \o ToString(nameCounts[name]) \o ".pdf"
    ELSE name

\* A counter that is set on the first occurrence and never incremented.
CountName_NoIncrement(name, nameCounts) ==
    IF name \in DOMAIN nameCounts
    THEN nameCounts
    ELSE [n \in (DOMAIN nameCounts) \cup {name} |->
            IF n = name THEN 1 ELSE nameCounts[n]]

\* Lines 127 and 129: nameCounts after one record.
CountName(name, nameCounts) ==
    IF name \in DOMAIN nameCounts
    THEN [nameCounts EXCEPT ![name] = @ + 1]
    ELSE [n \in (DOMAIN nameCounts) \cup {name} |->
            IF n = name THEN 1 ELSE nameCounts[n]]

\* Lines 121-132: the zip.file(finalName, originalFile) calls made for the
\* records recs[k..], in order.
RECURSIVE ZipFiles(_, _, _)
ZipFiles(recs, k, nameCounts) ==
    IF k > Len(recs) THEN <<>>
    ELSE <<[name |-> FinalName(recs[k].newName, nameCounts),
            data |-> recs[k].originalFile]>>
         \o ZipFiles(recs, k + 1, CountName(recs[k].newName, nameCounts))

\* JSZip: file(name, data) adds the entry or replaces the one of that name.
ZipEntries(calls) ==
    [n \in {calls[k].name : k \in DOMAIN calls} |->
        calls[CHOOSE k \in DOMAIN calls :
                 /\ calls[k].name = n
                 /\ \A j \in DOMAIN calls : calls[j].name = n => j <= k].data]

\* A filter that drops only the records that failed.
FilesToZip_NotError ==
    SelectSeq([k \in DOMAIN updatedResults |-> heap[updatedResults[k]]],
              LAMBDA r : r.status # FileProcessStatus.Error)

\* Line 106: results.filter(r => r.status === Success), over the results the
\* closure captured, the array updatedResults was copied from.
FilesToZip ==
    SelectSeq([k \in DOMAIN updatedResults |-> heap[updatedResults[k]]],
              LAMBDA r : r.status = FileProcessStatus.Success)

\* The run's locals are dead once the handler returned.
EndRun ==
    /\ pc' = "idle"
    /\ previewOnly' = FALSE
    /\ updatedResults' = <<>>
    /\ i' = 0
    /\ zip' = <<>>
    /\ heap' = Live(heap, Range(results))
    /\ UNCHANGED <<results, text, newName, error>>

\* A handleDownloadZip without the nothing-to-archive return.
handleDownloadZip_NoEmptyCheck ==
    /\ pc = "download"
    /\ zip' = ZipFiles(FilesToZip, 1, <<>>)
    /\ isProcessing' = TRUE
    /\ logs' = addLog(logs, "Creating ZIP archive with "
                            \o ToString(Len(FilesToZip)) \o " files...", "info")
    /\ pc' = "zip"
    /\ UNCHANGED <<results, heap, runLocals, downloads>>

\* A handleDownloadZip that does not raise isProcessing for the build.
handleDownloadZip_NoSetProcessing ==
    /\ pc = "download"
    /\ IF Len(FilesToZip) = 0
       THEN /\ logs' = addLog(logs, "No files were successfully renamed to include in a ZIP.", "error")
            /\ EndRun
            /\ UNCHANGED <<isProcessing, downloads>>
       ELSE LET l == addLog(logs, "Creating ZIP archive with "
                                  \o ToString(Len(FilesToZip)) \o " files...", "info")
            IN \/ /\ zip' = ZipFiles(FilesToZip, 1, <<>>)
                  /\ logs' = l
                  /\ pc' = "zip"
                  /\ UNCHANGED <<results, heap, isProcessing, runLocals, downloads>>
               \/ \E e \in Thrown :
                     /\ logs' = addLog(l, "Failed to create ZIP file: "
                                   \o (IF e.isError THEN e.message
                                       ELSE "An unknown ZIP error occurred."), "error")
                     /\ isProcessing' = FALSE
                     /\ EndRun
                     /\ UNCHANGED downloads

\* Lines 106-134: up to the await of zip.generateAsync.  new JSZip() can throw
\* (the library is a global loaded from a CDN).
handleDownloadZip ==
    /\ pc = "download"
    /\ IF Len(FilesToZip) = 0
       THEN /\ logs' = addLog(logs, "No files were successfully renamed to include in a ZIP.", "error")
            /\ EndRun
            /\ UNCHANGED <<isProcessing, downloads>>
       ELSE LET l == addLog(logs, "Creating ZIP archive with "
                                  \o ToString(Len(FilesToZip)) \o " files...", "info")
            IN \/ /\ zip' = ZipFiles(FilesToZip, 1, <<>>)
                  /\ isProcessing' = TRUE
                  /\ logs' = l
                  /\ pc' = "zip"
                  /\ UNCHANGED <<results, heap, runLocals, downloads>>
               \/ \E e \in Thrown :
                     /\ logs' = addLog(l, "Failed to create ZIP file: "
                                   \o (IF e.isError THEN e.message
                                       ELSE "An unknown ZIP error occurred."), "error")
                     /\ isProcessing' = FALSE
                     /\ EndRun
                     /\ UNCHANGED downloads

\* A generateAsync handler whose catch lacks the finally block.
GenerateSettles_NoFinally ==
    /\ pc = "zip"
    /\ \/ /\ downloads' = downloads + 1
          /\ logs' = addLog(logs, "ZIP file download initiated.", "success")
          /\ isProcessing' = FALSE
       \/ \E e \in Thrown :
             /\ logs' = addLog(logs, "Failed to create ZIP file: "
                               \o (IF e.isError THEN e.message
                                   ELSE "An unknown ZIP error occurred."), "error")
             /\ UNCHANGED <<downloads, isProcessing>>
    /\ EndRun

\* Lines 134-147: zip.generateAsync settles.
GenerateSettles ==
    /\ pc = "zip"
    /\ \/ /\ downloads' = downloads + 1
          /\ logs' = addLog(logs, "ZIP file download initiated.", "success")
       \/ \E e \in Thrown :
             /\ logs' = addLog(logs, "Failed to create ZIP file: "
                               \o (IF e.isError THEN e.message
                                   ELSE "An unknown ZIP error occurred."), "error")
             /\ UNCHANGED downloads
    /\ isProcessing' = FALSE
    /\ EndRun

Next ==
    \/ \E files \in Selections : handleFilesSelected(files)
    \/ clearAll
    \/ \E preview \in BOOLEAN : processFiles(preview)
    \/ LoopBody
    \/ ExtractSettles
    \/ NamingSettles
    \/ Complete
    \/ handleDownloadZip
    \/ GenerateSettles

Spec == Init /\ [][Next]_vars

\* The run under the claim's assumption: a synchronous block that can run does
\* run, and every pending extraction, naming and generation call settles.
FairSpec ==
    /\ Spec
    /\ WF_vars(LoopBody)
    /\ WF_vars(ExtractSettles)
    /\ WF_vars(NamingSettles)
    /\ WF_vars(Complete)
    /\ WF_vars(handleDownloadZip)
    /\ WF_vars(GenerateSettles)

\* The single run the variables describe is the only one: whenever a UI
\* handler can start, no run is in progress.
OneRun == (EventLoopFree /\ UIEnabled) => pc = "idle"

-----------------------------------------------------------------------------
(* Properties *)

Terminal ==
    {FileProcessStatus.Success, FileProcessStatus.Error, FileProcessStatus.NoMatch}

StatusOf(k) == heap[results[k]].status

LastLog == logs[Len(logs)]

Logged(message) == \E k \in DOMAIN logs : logs[k].message = message

\* C1: at the step that logs "Processing complete." and sets isProcessing to
\* false, every record of the batch has status Success, Error or NoMatch.
C1_CompleteAllTerminal ==
    [][(/\ logs' = Append(logs, [message |-> "Processing complete.", type |-> "info"])
        /\ isProcessing /\ ~isProcessing')
       => /\ Len(results') > 0
          /\ \A k \in DOMAIN results' : heap'[results'[k]].status \in Terminal]_vars

\* A run over three records has just completed with one record of each
\* terminal status.
C1_Witness ==
    /\ Len(logs) > 0 /\ LastLog.message = "Processing complete."
    /\ ~isProcessing
    /\ Len(results) = 3
    /\ {StatusOf(k) : k \in DOMAIN results} = Terminal

\* C2: in every state, a record's newName is non-empty if and only if its
\* status is Success.
C2_NameIffSuccess ==
    \A r \in DOMAIN heap :
        (heap[r].newName # "") <=> (heap[r].status = FileProcessStatus.Success)

\* In a re-run, the first record is back at Processing while the second
\* still holds the name the earlier run gave it.
C2_Witness ==
    /\ Logged("Processing complete.")
    /\ pc = "extract"
    /\ Len(results) >= 2
    /\ heap[results[1]].status = FileProcessStatus.Processing
    /\ heap[results[1]].message # Undefined
    /\ heap[results[2]].status = FileProcessStatus.Success

\* C3: a failed extraction or naming call marks its own record Error with a
\* message, changes no other record and nothing else of that record, and leaves
\* the run in the loop at the next index; the index only ever advances by one,
\* past a record that went from Processing to a terminal status; and a run
\* ends only with the index past the last record.
C3_FailureIsLocal ==
    /\ [][(pc \in {"extract", "naming"} /\ error' # NoError)
          => /\ \A r \in DOMAIN heap : r # result => heap'[r] = heap[r]
             /\ DOMAIN heap' = DOMAIN heap
             /\ heap'[result] = [heap[result] EXCEPT
                                   !.status = FileProcessStatus.Error,
                                   !.message = heap'[result].message]
             /\ heap'[result].message # Undefined
             /\ pc' = "loop" /\ i' = i + 1 /\ isProcessing'
             /\ updatedResults' = updatedResults /\ results' = updatedResults]_vars
    /\ [][(i' # i /\ i' # 0)
          => /\ i' = i + 1
             /\ heap[result].status = FileProcessStatus.Processing
             /\ heap'[result].status \in Terminal]_vars
    /\ [][(pc \in {"loop", "extract", "naming"} /\ pc' \in {"idle", "download"})
          => /\ i = Len(updatedResults)
             /\ \A k \in DOMAIN updatedResults :
                   heap[updatedResults[k]].status \in Terminal]_vars

\* The first record of three failed, and the run went on to give the second a
\* name and the third no match.
C3_Witness ==
    /\ pc = "loop" /\ i = 3 /\ Len(results) = 3
    /\ StatusOf(1) = FileProcessStatus.Error
    /\ StatusOf(2) = FileProcessStatus.Success
    /\ StatusOf(3) = FileProcessStatus.NoMatch

\* The records of the published batch, in order, and those with Success.
Batch == [k \in DOMAIN results |-> heap[results[k]]]

Successes == SelectSeq(Batch, LAMBDA r : r.status = FileProcessStatus.Success)

\* The archive under construction: entry name -> payload.
Archive == ZipEntries(zip)

\* How many of the first k - 1 Success records share the k-th one's name.
Earlier(k) ==
    Cardinality({j \in 1..(k - 1) : Successes[j].newName = Successes[k].newName})

\* n and m are a computed name and that name with a numeric suffix.
SuffixOf(n, m) ==
    \E b \in Names, c \in 1..Len(results) :
        n = b \o ".pdf" /\ m = b \o "_" \o ToString(c) \o ".pdf"

\* C4: when two records of the batch have the same computed name, the archive
\* holds the payload of every Success record, and the two payloads sit under
\* distinct names, one the computed name and the other that name with a
\* numeric suffix.
C4_CollisionKeepsBoth ==
    (pc = "zip" /\ \E j, k \in DOMAIN Successes :
                      j < k /\ Successes[j].newName = Successes[k].newName)
    => /\ \A k \in DOMAIN Successes :
             \E n \in DOMAIN Archive : Archive[n] = Successes[k].originalFile
       /\ \A j, k \in DOMAIN Successes :
             (j < k /\ Successes[j].newName = Successes[k].newName
                    /\ Earlier(j) = 0)
             => \E n, m \in DOMAIN Archive :
                   /\ n # m
                   /\ Archive[n] = Successes[j].originalFile
                   /\ Archive[m] = Successes[k].originalFile
                   /\ n = Successes[j].newName
                   /\ SuffixOf(n, m)

\* C5: the k-th zip.file call is for the k-th Success record; it uses the
\* computed name N.pdf when no earlier Success record has that name, and
\* N_c.pdf when c >= 1 earlier ones have it.
C5_SuffixInOrder ==
    pc = "zip"
    => /\ Len(zip) = Len(Successes)
       /\ \A k \in DOMAIN zip :
             /\ zip[k].data = Successes[k].originalFile
             /\ \E b \in Names :
                   /\ Successes[k].newName = b \o ".pdf"
                   /\ zip[k].name = IF Earlier(k) = 0 THEN b \o ".pdf"
                                    ELSE b \o "_" \o ToString(Earlier(k)) \o ".pdf"

\* Three records got the same name; the third is stored with suffix _2.
C5_Witness ==
    /\ pc = "zip" /\ Len(zip) = 3
    /\ zip[1].name = "a.pdf" /\ zip[2].name = "a_1.pdf" /\ zip[3].name = "a_2.pdf"

\* C6: every entry of the archive is the payload of a Success record of the
\* batch under that record's computed name or that name with a numeric suffix,
\* and no zip.file call carries the payload of a record that is not Success.
C6_OnlySuccessArchived ==
    pc = "zip"
    => /\ \A n \in DOMAIN Archive :
             \E k \in DOMAIN Successes :
                /\ Archive[n] = Successes[k].originalFile
                /\ n = Successes[k].newName \/ SuffixOf(Successes[k].newName, n)
       /\ \A k \in DOMAIN Batch :
             Batch[k].status # FileProcessStatus.Success
             => \A c \in DOMAIN zip : zip[c].data # Batch[k].originalFile

\* An archive is being generated for a batch with a failed record and a
\* record without a match next to the renamed one.
C6_Witness ==
    /\ pc = "zip" /\ Len(zip) >= 1
    /\ \E k \in DOMAIN Batch : Batch[k].status = FileProcessStatus.Error
    /\ \E k \in DOMAIN Batch : Batch[k].status = FileProcessStatus.NoMatch

\* C7: a step taken while the batch is empty and stays empty, and that is not
\* a clear, is the empty-batch return of processFiles: it appends one error
\* entry to the log and changes nothing else (no run starts, isProcessing
\* stays as it was, no call is made, nothing is archived or downloaded).
C7_EmptyBatchOnlyLogs ==
    [][(Len(results) = 0 /\ Len(results') = 0 /\ logs' # <<>>)
       => /\ logs' = Append(logs, [message |-> "No files to process. Please upload PDFs first.",
                                   type |-> "error"])
          /\ UNCHANGED <<results, heap, isProcessing, pc, previewOnly,
                         updatedResults, i, text, newName, error, zip, downloads>>
          /\ pc = "idle" /\ ~isProcessing]_vars

\* processFiles was invoked twice on an empty batch.
C7_Witness ==
    /\ Len(results) = 0 /\ Len(logs) = 2
    /\ \A k \in DOMAIN logs :
          logs[k] = [message |-> "No files to process. Please upload PDFs first.",
                     type |-> "error"]
    /\ pc = "idle" /\ ~isProcessing

\* C8: when handleDownloadZip runs and no record of the batch has status
\* Success, it appends one error entry to the log and returns: no zip is
\* built, no generation call is awaited, no download starts, and isProcessing,
\* the results and every record stay as they were.
C8_NothingToArchive ==
    [][(pc = "download"
        /\ \A k \in DOMAIN results : heap[results[k]].status # FileProcessStatus.Success)
       => /\ logs' = Append(logs, [message |-> "No files were successfully renamed to include in a ZIP.",
                                   type |-> "error"])
          /\ pc' = "idle" /\ zip' = <<>> /\ downloads' = downloads
          /\ isProcessing' = isProcessing
          /\ results' = results
          /\ \A k \in DOMAIN results : heap'[results[k]] = heap[results[k]]]_vars

\* A download run over two records, none renamed, has just returned from
\* handleDownloadZip.
C8_Witness ==
    /\ pc = "idle" /\ Len(results) = 2 /\ Len(logs) > 0
    /\ LastLog.message = "No files were successfully renamed to include in a ZIP."
    /\ StatusOf(1) = FileProcessStatus.Error
    /\ StatusOf(2) = FileProcessStatus.NoMatch

\* C9: when getNewFilename resolves with no name for the text extracted from a
\* record, the record becomes NoMatch with an empty newName; and no zip.file
\* call of an archive carries the payload of a NoMatch record.
C9_NoMatchExcluded ==
    /\ [][(pc = "naming" /\ newName' = NoName)
          => /\ heap'[result].status = FileProcessStatus.NoMatch
             /\ heap'[result].newName = ""]_vars
    /\ [](pc = "zip"
          => \A k \in DOMAIN Batch :
                Batch[k].status = FileProcessStatus.NoMatch
                => \A c \in DOMAIN zip : zip[c].data # Batch[k].originalFile)

\* An archive is being generated for a batch whose second record had text and
\* no match.
C9_Witness ==
    /\ pc = "zip" /\ Len(results) >= 2
    /\ StatusOf(2) = FileProcessStatus.NoMatch
    /\ Len(zip) = Len(results) - 1

\* C10: a live record's status changes only from Idle or a terminal status to
\* Processing (with newName cleared), or from Processing to a terminal status;
\* the terminal status and the name depend only on what the iteration's own
\* calls settled with (text, newName, error).
C10_StatusLifecycle ==
    [][\A r \in (DOMAIN heap) \cap (DOMAIN heap') :
         heap'[r].status # heap[r].status
         => \/ /\ heap[r].status \in Terminal \cup {FileProcessStatus.Idle}
               /\ heap'[r].status = FileProcessStatus.Processing
               /\ heap'[r].newName = ""
            \/ /\ heap[r].status = FileProcessStatus.Processing
               /\ heap'[r].status =
                     IF error' # NoError THEN FileProcessStatus.Error
                     ELSE IF newName' \in Names THEN FileProcessStatus.Success
                     ELSE FileProcessStatus.NoMatch
               /\ heap'[r].newName =
                     IF error' = NoError /\ newName' \in Names
                     THEN newName' \o ".pdf" ELSE ""]_vars

\* In a re-run a record that failed in the earlier run (its message is still
\* there) got a name, while the record after it still has the earlier run's
\* status.
C10_Witness ==
    /\ pc = "loop" /\ i = 1 /\ Len(results) = 2
    /\ Logged("Processing complete.")
    /\ StatusOf(1) = FileProcessStatus.Success
    /\ heap[results[1]].message # Undefined
    /\ StatusOf(2) \in Terminal

\* C11: at most one record has status Processing; while an extraction or
\* naming call is outstanding it is for the record at the loop index, which is
\* the one Processing record, and every record before it in the batch has a
\* terminal status; a call to extractTextFromPdf starts only from the loop,
\* for the record at the index, and the index moves one record at a time.
C11_OneAtATime ==
    /\ [](Cardinality({r \in DOMAIN heap :
                         heap[r].status = FileProcessStatus.Processing}) <= 1)
    /\ [](pc \in {"extract", "naming"}
          => /\ i < Len(updatedResults)
             /\ heap[result].status = FileProcessStatus.Processing
             /\ \A k \in 1..i : heap[updatedResults[k]].status \in Terminal)
    /\ [][(pc' = "extract" /\ pc # "extract")
          => /\ pc = "loop" /\ i' = i
             /\ \A k \in 1..i : heap[updatedResults[k]].status \in Terminal
             /\ \A r \in DOMAIN heap :
                   heap[r].status # FileProcessStatus.Processing]_vars
    /\ [][i' # i => (i' = i + 1 \/ i' = 0)]_vars

\* The naming call for the second of three records is outstanding: the first
\* record is done and the third has not been touched.
C11_Witness ==
    /\ pc = "naming" /\ i = 1 /\ Len(results) = 3
    /\ StatusOf(1) \in Terminal
    /\ StatusOf(2) = FileProcessStatus.Processing
    /\ StatusOf(3) = FileProcessStatus.Idle

\* C12: from the start of a run until its handler returns, no upload, clear or
\* second processFiles can start; the published results stay the array the run
\* copied, the log is only appended to, the run's own copy and parameter are
\* not replaced, and a record changes only if it is the record at the loop
\* index.
C12_SingleWriter ==
    /\ [](pc # "idle" => (~(EventLoopFree /\ UIEnabled) /\ results = updatedResults))
    /\ [][pc # "idle"
          => /\ results' = results
             /\ Len(logs') >= Len(logs) /\ SubSeq(logs', 1, Len(logs)) = logs
             /\ pc' # "idle" => (updatedResults' = updatedResults
                                 /\ previewOnly' = previewOnly)
             /\ \A r \in DOMAIN heap :
                   /\ r \in DOMAIN heap'
                   /\ heap'[r] # heap[r]
                      => (pc \in {"loop", "extract", "naming"} /\ r = result)]_vars

\* A run over three records is waiting for the naming call of its second
\* record, a point at which UI events can be delivered.
C12_Witness ==
    /\ pc = "naming" /\ i = 1 /\ Len(results) = 3 /\ isProcessing

\* The entries a step appended to the log.
Appended == SubSeq(logs', Len(logs) + 1, Len(logs'))

\* C13: when the archive build fails (new JSZip() or zip.file throws in
\* handleDownloadZip, or zip.generateAsync rejects), the step appends exactly
\* one error entry, "Failed to create ZIP file: ...", leaves the results and
\* every record as they were, starts no download and ends with isProcessing
\* false.
C13_ArchiveFailureIsBatchLevel ==
    [][(\/ pc = "zip" /\ downloads' = downloads
        \/ pc = "download" /\ pc' = "idle"
           /\ \E k \in DOMAIN results :
                 heap[results[k]].status = FileProcessStatus.Success)
       => /\ SubSeq(logs', 1, Len(logs)) = logs
          /\ Cardinality({k \in DOMAIN Appended : Appended[k].type = "error"}) = 1
          /\ logs'[Len(logs')].type = "error"
          /\ logs'[Len(logs')].message \in
                {"Failed to create ZIP file: boom",
                 "Failed to create ZIP file: An unknown ZIP error occurred."}
          /\ results' = results
          /\ \A k \in DOMAIN results : heap'[results[k]] = heap[results[k]]
          /\ downloads' = downloads
          /\ ~isProcessing' /\ pc' = "idle"]_vars

\* The generation of an archive for two renamed records was rejected.
C13_Witness ==
    /\ pc = "idle" /\ ~isProcessing /\ Len(results) = 2 /\ Len(logs) >= 2
    /\ LastLog.message = "Failed to create ZIP file: An unknown ZIP error occurred."
    /\ logs[Len(logs) - 1].message = "Creating ZIP archive with 2 files..."
    /\ StatusOf(1) = FileProcessStatus.Success
    /\ StatusOf(2) = FileProcessStatus.Success

\* C14: the records of a batch have pairwise distinct ids.
C14_IdsDistinct ==
    \A j, k \in DOMAIN results :
        j # k => heap[results[j]].id # heap[results[k]].id

\* C15: when extractTextFromPdf resolves with an empty text, the record
\* becomes Error with the message "Could not extract text from PDF.",
\* getNewFilename is not called for it (a naming call is only ever outstanding
\* for a non-empty text), and the run stays in the loop at the next index.
C15_EmptyTextIsError ==
    /\ [][(pc = "extract" /\ text' = "")
          => /\ heap'[result].status = FileProcessStatus.Error
             /\ heap'[result].message = "Could not extract text from PDF."
             /\ newName' = Undefined
             /\ pc' = "loop" /\ i' = i + 1 /\ isProcessing'
             /\ updatedResults' = updatedResults]_vars
    /\ [](pc = "naming" => text \notin {"", Undefined})

\* The first record had no text; the run is extracting the second.
C15_Witness ==
    /\ pc = "extract" /\ i = 1 /\ Len(results) >= 2
    /\ StatusOf(1) = FileProcessStatus.Error
    /\ heap[results[1]].message = "Could not extract text from PDF."
    /\ StatusOf(2) = FileProcessStatus.Processing

\* C16: a run that is in its loop eventually logs "Processing complete." with
\* isProcessing false; whatever a run or an archive build is doing, the
\* handler eventually returns with isProcessing false; and isProcessing only
\* becomes true again at the start of a run or of an archive build.
C16_RunCompletes ==
    /\ (pc \in {"loop", "extract", "naming"})
          ~> (Len(logs) > 0 /\ LastLog.message = "Processing complete."
              /\ ~isProcessing)
    /\ (pc # "idle") ~> (pc = "idle" /\ ~isProcessing)
    /\ [][(~isProcessing /\ isProcessing')
          => \/ pc = "idle" /\ pc' = "loop"
             \/ pc = "download" /\ pc' = "zip"]_vars

\* A download run over three records has built its archive, started the
\* download and returned.
C16_Witness ==
    /\ pc = "idle" /\ ~isProcessing /\ Len(results) = 3 /\ downloads = 1
    /\ LastLog.message = "ZIP file download initiated."
    /\ Logged("Processing complete.")

\* C17: a record carries a message only if its status is Error.
C17_MessageOnlyOnError ==
    \A r \in DOMAIN heap :
        heap[r].message # Undefined => heap[r].status = FileProcessStatus.Error

\* C18: the names of the zip.file calls of an archive are pairwise distinct,
\* so the archive has one entry per Success record.
C18_FinalNamesDistinct ==
    pc = "zip"
    => /\ \A j, k \in DOMAIN zip : j # k => zip[j].name # zip[k].name
       /\ Cardinality(DOMAIN Archive) = Len(Successes)

\* C19: handleDownloadZip runs, and an archive is generated, only with the
\* loop index past the last record and every record of the batch at a terminal
\* status; the archive it builds holds, in order, the records that are Success
\* in the heap at that moment, under names made from their current newName, and
\* it returns without an archive exactly when none is Success now.
C19_ArchiveUsesThisRun ==
    /\ [](pc \in {"download", "zip"}
          => /\ i = Len(updatedResults)
             /\ \A k \in DOMAIN results : StatusOf(k) \in Terminal)
    /\ [][pc = "download"
          => IF Len(Successes) = 0
             THEN pc' = "idle" /\ zip' = <<>>
             ELSE /\ pc' \in {"zip", "idle"}
                  /\ pc' = "zip"
                     => /\ Len(zip') = Len(Successes)
                        /\ \A k \in DOMAIN Successes :
                              /\ zip'[k].data = Successes[k].originalFile
                              /\ \/ zip'[k].name = Successes[k].newName
                                 \/ SuffixOf(Successes[k].newName, zip'[k].name)]_vars

\* A preview run named the first of two records a.pdf; the download run that
\* followed failed on the first and named the second, and its archive holds
\* the second record only.
C19_Witness ==
    /\ pc = "zip" /\ Len(results) = 2
    /\ Logged("Found name for x.pdf -> a.pdf")
    /\ StatusOf(1) = FileProcessStatus.Error
    /\ StatusOf(2) = FileProcessStatus.Success
    /\ Len(zip) = 1
    /\ zip[1].data = heap[results[2]].originalFile

\* C20: isProcessing is true whenever a record has status Processing or a
\* zip.generateAsync call is outstanding, and false whenever no handler is
\* running (after an upload, a clear, a finished preview run, a finished or
\* failed archive build, an archive request without a Success record).
C20_IsProcessingTracksWork ==
    /\ ((\E r \in DOMAIN heap : heap[r].status = FileProcessStatus.Processing)
        \/ pc = "zip") => isProcessing
    /\ pc = "idle" => ~isProcessing

\* An archive for three records is being generated.
C20_Witness ==
    /\ pc = "zip" /\ isProcessing /\ Len(results) = 3 /\ Len(zip) >= 1
====
